---------------------------- MODULE Spec2Model ----------------------------
(***************************************************************************)
(* A model of the two Editor.js plugins of ai-text-tool:                   *)
(*   - AITextInlineTool (src/src/inline.ts): transform the selected text,  *)
(*     stream the result into a preview span, accept or reject it;         *)
(*   - AITextTool (src/src/index.ts): generate a block from a prompt.      *)
(* Text is a sequence of tokens (one-character strings, the blank " ", and *)
(* whole fixed messages as single tokens).  The block that holds the       *)
(* selection is the sequence of its child nodes; DOM ranges are live and   *)
(* are updated by every mutation as the DOM standard prescribes.           *)
(***************************************************************************)
EXTENDS Integers, Sequences, FiniteSets, TLC

(* ------------------------------ bounds -------------------------------- *)
\* handleGenerate invocations that pass the blank-prompt check
MaxGen == 2
\* chunks with content that one stream delivers
MaxChunks == 2
\* surround calls that take a snapshot
MaxSnapshots == 2
\* arming timers (setTimeout 100) pending at the same time
MaxTimers == 2

(* ------------------------------- text --------------------------------- *)
Min(S) == CHOOSE x \in S : \A y \in S : x <= y
Max(S) == CHOOSE x \in S : \A y \in S : x >= y

\* String.prototype.trim: drop the leading and the trailing blanks
Trim(t) ==
  LET idx == {i \in 1..Len(t) : t[i] # " "}
  IN  IF idx = {} THEN <<>> ELSE SubSeq(t, Min(idx), Max(idx))

\* the accumulator overwritten by the fragment instead of extended by it
OnlyFragment(fullText, content) == content

\* `fullText += content`
AppendFragment(fullText, content) == fullText \o content

IsPrefix(s, t) == Len(s) <= Len(t) /\ SubSeq(t, 1, Len(s)) = s

\* the concatenation of a sequence of texts, in order
RECURSIVE Concat(_)
Concat(ss) == IF ss = <<>> THEN <<>> ELSE Head(ss) \o Concat(Tail(ss))

\* the fixed messages of the two widgets
ErrNoKeyInline == <<"Error: No API key configured.">>
ErrNoKeyBlock == <<"Error: No API key configured. Please add your OpenAI API key.">>
ErrNoContent == <<"Error: No content received from AI.">>
ErrEmptyPrompt == <<"Please enter a prompt first.">>
\* `Error: ${error.message}` and `Error generating text: ${error.message}`
ErrTransportInline == <<"Error: ", "network">>
ErrTransportBlock == <<"Error generating text: ", "network">>
\* the text of the two buttons (reject, accept) of a controls container
ControlsText == <<"[x]", "[v]">>

(* ------------------------------- DOM ---------------------------------- *)
(* The block element's children.  A node is [k, id, t]: a Text node       *)
(* (k = "text", data t), a preview span (k = "span", id its generation),   *)
(* a loading spinner (k = "spin") or a controls container (k = "ctl").     *)
(* A boundary point is <<c, o>>: c = 0 is the block element and o a child  *)
(* index; c > 0 is the Text node at position c and o an offset in its data.*)
(* A DOM state is [doc, rs]: the children and the live ranges; a mutation   *)
(* moves the boundary points of every live range by its rule F.            *)
TextNode(t) == [k |-> "text", id |-> 0, t |-> t]
SpanNode(g) == [k |-> "span", id |-> g, t |-> <<>>]
SpinNode(g) == [k |-> "spin", id |-> g, t |-> <<>>]
CtlNode(c) == [k |-> "ctl", id |-> c, t |-> <<>>]

NoRange == [s |-> <<0 - 1, 0>>, e |-> <<0 - 1, 0>>]

\* the position (1-based) of the node of kind k and identity id, 0 if detached
PosOf(doc, k, id) ==
  LET S == {i \in 1..Len(doc) : doc[i].k = k /\ doc[i].id = id}
  IN  IF S = {} THEN 0 ELSE Min(S)

\* DOM "insert": node becomes the child at index idx (0-based)
DomInsert(D, idx, node) ==
  LET F(p) == IF p[1] = 0
              THEN (IF p[2] > idx THEN <<0, p[2] + 1>> ELSE p)
              ELSE (IF p[1] > idx THEN <<p[1] + 1, p[2]>> ELSE p)
  IN  [doc |-> SubSeq(D.doc, 1, idx) \o <<node>> \o SubSeq(D.doc, idx + 1, Len(D.doc)),
       rs  |-> [i \in DOMAIN D.rs |->
                 IF D.rs[i] = NoRange THEN NoRange
                 ELSE [s |-> F(D.rs[i].s), e |-> F(D.rs[i].e)]]]

\* DOM "remove": the child at index idx (0-based) leaves the block
DomRemove(D, idx) ==
  LET F(p) == IF p[1] = 0
              THEN (IF p[2] > idx THEN <<0, p[2] - 1>> ELSE p)
              ELSE IF p[1] = idx + 1 THEN <<0, idx>>
              ELSE IF p[1] > idx + 1 THEN <<p[1] - 1, p[2]>> ELSE p
  IN  [doc |-> SubSeq(D.doc, 1, idx) \o SubSeq(D.doc, idx + 2, Len(D.doc)),
       rs  |-> [i \in DOMAIN D.rs |->
                 IF D.rs[i] = NoRange THEN NoRange
                 ELSE [s |-> F(D.rs[i].s), e |-> F(D.rs[i].e)]]]

\* DOM "replace data" of the Text node at position pos
DomReplaceData(D, pos, offset, count, data) ==
  LET t == D.doc[pos].t
      F(p) == IF p[1] # pos THEN p
              ELSE IF p[2] > offset /\ p[2] <= offset + count THEN <<pos, offset>>
              ELSE IF p[2] > offset + count THEN <<pos, p[2] + Len(data) - count>>
              ELSE p
  IN  [doc |-> [D.doc EXCEPT ![pos] =
                  TextNode(SubSeq(t, 1, offset) \o data \o SubSeq(t, offset + count + 1, Len(t)))],
       rs  |-> [i \in DOMAIN D.rs |->
                 IF D.rs[i] = NoRange THEN NoRange
                 ELSE [s |-> F(D.rs[i].s), e |-> F(D.rs[i].e)]]]

\* DOM "split a Text node": the data from offset on moves to a new next sibling
DomSplitText(D, pos, offset) ==
  LET t  == D.doc[pos].t
      D1 == DomInsert(D, pos, TextNode(SubSeq(t, offset + 1, Len(t))))
      F(p) == IF p[1] = pos /\ p[2] > offset THEN <<pos + 1, p[2] - offset>>
              ELSE IF p[1] = 0 /\ p[2] = pos THEN <<0, p[2] + 1>>
              ELSE p
      D2 == [doc |-> D1.doc, rs |-> [i \in DOMAIN D1.rs |->
                 IF D1.rs[i] = NoRange THEN NoRange
                 ELSE [s |-> F(D1.rs[i].s), e |-> F(D1.rs[i].e)]]]
  IN  DomReplaceData(D2, pos, offset, Len(t) - offset, <<>>)

\* whether the child at position pos lies wholly inside the range r
Contained(r, pos) ==
  /\ IF r.s[1] = 0 THEN r.s[2] <= pos - 1 ELSE r.s[1] < pos
  /\ IF r.e[1] = 0 THEN r.e[2] >= pos ELSE r.e[1] > pos

RECURSIVE RemoveAll(_, _)
RemoveAll(D, S) ==
  IF S = {} THEN D ELSE RemoveAll(DomRemove(D, Max(S) - 1), S \ {Max(S)})

\* Range.deleteContents on the live range rid
DeleteContents(D, rid) ==
  LET r == D.rs[rid]
  IN  IF r.s = r.e THEN D
      ELSE IF r.s[1] > 0 /\ r.s[1] = r.e[1]
      THEN DomReplaceData(D, r.s[1], r.s[2], r.e[2] - r.s[2], <<>>)
      ELSE
        LET new == IF r.s[1] = 0 THEN r.s ELSE <<0, r.s[1]>>
            gone == {p \in 1..Len(D.doc) : Contained(r, p)}
            D1 == IF r.s[1] > 0
                  THEN DomReplaceData(D, r.s[1], r.s[2], Len(D.doc[r.s[1]].t) - r.s[2], <<>>)
                  ELSE D
            ePos == IF r.e[1] > 0 THEN r.e[1] - Cardinality(gone) ELSE 0
            D2 == RemoveAll(D1, gone)
            D3 == IF ePos > 0 THEN DomReplaceData(D2, ePos, 0, r.e[2], <<>>) ELSE D2
        IN  [doc |-> D3.doc, rs |-> [D3.rs EXCEPT ![rid] = [s |-> new, e |-> new]]]

\* Range.insertNode(node) on the live range rid
InsertNode(D, rid, node) ==
  LET r  == D.rs[rid]
      collapsed == r.s = r.e
      D1 == IF r.s[1] > 0 THEN DomSplitText(D, r.s[1], r.s[2]) ELSE D
      \* index of the reference child (the new Text node, or the child at the offset)
      idx == IF r.s[1] > 0 THEN r.s[1] ELSE r.s[2]
      D2 == DomInsert(D1, idx, node)
  IN  IF collapsed
      THEN [doc |-> D2.doc, rs |-> [D2.rs EXCEPT ![rid].e = <<0, idx + 1>>]]
      ELSE D2

\* Node.normalize on the block: drop empty Text nodes, merge adjacent ones
RECURSIVE Normalize(_, _)
Normalize(D, pos) ==
  IF pos > Len(D.doc) THEN D
  ELSE IF D.doc[pos].k # "text" THEN Normalize(D, pos + 1)
  ELSE IF D.doc[pos].t = <<>> THEN Normalize(DomRemove(D, pos - 1), pos)
  ELSE IF pos < Len(D.doc) /\ D.doc[pos + 1].k = "text"
  THEN LET len == Len(D.doc[pos].t)
           D1 == DomReplaceData(D, pos, len, 0, D.doc[pos + 1].t)
           F(p) == IF p[1] = pos + 1 THEN <<pos, p[2] + len>>
                   ELSE IF p[1] = 0 /\ p[2] = pos THEN <<pos, len>>
                   ELSE p
           D2 == [doc |-> D1.doc, rs |-> [i \in DOMAIN D1.rs |->
                 IF D1.rs[i] = NoRange THEN NoRange
                 ELSE [s |-> F(D1.rs[i].s), e |-> F(D1.rs[i].e)]]]
       IN  Normalize(DomRemove(D2, pos), pos)
  ELSE Normalize(D, pos + 1)

\* Node.replaceChild(textNode, span) then parent.normalize()
ReplaceSpanByText(D, pos, t) ==
  Normalize(DomInsert(DomRemove(D, pos - 1), pos - 1, TextNode(t)), 1)


\* Node.textContent of the block element
RECURSIVE BlockText(_, _)
BlockText(d, st) ==
  IF d = <<>> THEN <<>>
  ELSE (CASE Head(d).k = "text" -> Head(d).t
          [] Head(d).k = "span" -> st[Head(d).id]
          [] Head(d).k = "ctl"  -> ControlsText
          [] OTHER -> <<>>) \o BlockText(Tail(d), st)

(* ------------------------------ inputs -------------------------------- *)
Gens == 1..MaxGen
RangeIds == 1..(MaxGen + 1)
CtlIds == 1..(MaxGen + 2)
HandlerIds == 1..(MaxGen + 2)

\* what the user types into the prompt field: two blank prompts, one instruction
Prompts == {<<>>, <<" ">>, <<"p">>}
\* delta.content of a chunk: absent or empty, a word, a blank
Fragments == {<<>>, <<"x">>, <<" ">>}
\* the text of the block the user works in
InitialText == <<"a", " ", "b">>
\* the selections the user makes in a Text node with data t, as offsets <<s, e>>: a
\* word together with the blank that follows it, a word alone, or a single blank
Selections(t) ==
  LET wordThenBlank(s) == s + 2 <= Len(t) /\ t[s + 1] # " " /\ t[s + 2] = " "
  IN  {<<s, s + 2>> : s \in {x \in 0..(Len(t) - 1) : wordThenBlank(x)}}
        \cup {<<s, s + 1>> : s \in {x \in 0..(Len(t) - 1) : ~wordThenBlank(x)}}

(* ------------------------------- state -------------------------------- *)
VARIABLES
  tool,                \* which widget the host has instantiated: "inline" or "block"
  cfgKey,              \* config.apiKey as the host passes it ("" when not configured)
  env,                 \* the environment: the value found under each of EnvNames
  cred,                \* this._apiKey ("-" before the constructor has run)
  ctx,                 \* a range's ancestors and what getSurroundingContext returned for it
  apiKey,              \* this._apiKey is non-empty
  requests,            \* chat.completions.create calls issued
  lastOp,              \* the last operation that ran (history)
  \* the document and the objects of the inline tool
  doc,                 \* children of the block element
  ranges,              \* the live Range objects, by identity
  spanText,            \* textContent of each preview span (attached or not)
  spanHi,              \* the preview span carries the highlight background
  spanDown,            \* the preview span has a mousedown listener
  ctlSpan,             \* the span the buttons of a controls container are bound to
  docListeners,        \* click listeners registered on document
  timers,              \* pending arming timers of setupOutsideClickHandler
  inputEvents,         \* input events the last handler dispatched to the editable ancestor
  alertShown,          \* the last handler raised alert("Please enter a prompt")
  snapshots,           \* surround calls that have taken a snapshot
  snapshotTaken,       \* the surround call of the invocation whose actions are shown took one
  \* the fields of AITextInlineTool
  isProcessing, previewSpan, originalText, controlsContainer, currentRange,
  currentSelectedText, actionsContainer, outsideClickHandler,
  \* the handleGenerate invocations
  gen, nGen,
  \* the block tool
  blk

inlineVars == <<doc, ranges, spanText, spanHi, spanDown, ctlSpan, docListeners, timers,
                inputEvents, alertShown, snapshots, snapshotTaken, isProcessing, previewSpan, originalText,
                controlsContainer, currentRange, currentSelectedText, actionsContainer,
                outsideClickHandler, gen, nGen>>
credVars == <<cfgKey, env, cred>>
vars == <<tool, credVars, ctx, apiKey, requests, lastOp, inlineVars, blk>>

\* the state of the inline tool and of its document, as one record
W == [doc |-> doc, ranges |-> ranges, spanText |-> spanText, spanHi |-> spanHi,
      spanDown |-> spanDown, ctlSpan |-> ctlSpan, docListeners |-> docListeners,
      timers |-> timers, inputEvents |-> 0, alert |-> FALSE,
      snapshots |-> snapshots, snapshotTaken |-> snapshotTaken,
      isProcessing |-> isProcessing, previewSpan |-> previewSpan,
      originalText |-> originalText, controlsContainer |-> controlsContainer,
      currentRange |-> currentRange, currentSelectedText |-> currentSelectedText,
      actionsContainer |-> actionsContainer, outsideClickHandler |-> outsideClickHandler,
      gen |-> gen, nGen |-> nGen, requests |-> requests]

Set(w) ==
  /\ doc' = w.doc /\ ranges' = w.ranges /\ spanText' = w.spanText /\ spanHi' = w.spanHi
  /\ spanDown' = w.spanDown /\ ctlSpan' = w.ctlSpan /\ docListeners' = w.docListeners
  /\ timers' = w.timers /\ inputEvents' = w.inputEvents /\ alertShown' = w.alert
  /\ snapshots' = w.snapshots /\ snapshotTaken' = w.snapshotTaken
  /\ isProcessing' = w.isProcessing /\ previewSpan' = w.previewSpan
  /\ originalText' = w.originalText /\ controlsContainer' = w.controlsContainer
  /\ currentRange' = w.currentRange /\ currentSelectedText' = w.currentSelectedText
  /\ actionsContainer' = w.actionsContainer /\ outsideClickHandler' = w.outsideClickHandler
  /\ gen' = w.gen /\ nGen' = w.nGen /\ requests' = w.requests

\* a handleGenerate invocation that has not started: its position, its arguments,
\* the locals of generateTextWithStreaming, and as history the contents that were
\* not empty, how the generate call ended and whether an accept has replaced its span
NoGen == [pc |-> "none", selectedText |-> <<>>, userPrompt |-> <<>>, range |-> 0,
          fullText |-> <<>>, frags |-> <<>>, outcome |-> "none", committed |-> FALSE]

D(w) == [doc |-> w.doc, rs |-> w.ranges]
WithD(w, d) == [w EXCEPT !.doc = d.doc, !.ranges = d.rs]
Attached(w, k, id) == PosOf(w.doc, k, id) > 0

(* --------------------------- the credential -------------------------- *)
\* the names getClientSideEnvVar looks up for the key OPENAI_API_KEY, in its order:
\* process.env (three prefixes, then none), then window.env
EnvNames == <<"NEXT_PUBLIC_OPENAI_API_KEY", "VITE_OPENAI_API_KEY",
              "REACT_APP_OPENAI_API_KEY", "OPENAI_API_KEY", "window.env.OPENAI_API_KEY">>

\* getClientSideEnvVar(key): the first truthy value, undefined (here "") without one
RECURSIVE getClientSideEnvVar(_, _)
getClientSideEnvVar(e, i) ==
  IF i > Len(EnvNames) THEN ""
  ELSE IF e[i] # "" THEN e[i]
  ELSE getClientSideEnvVar(e, i + 1)

\* the constructor of AITextInlineTool: config?.apiKey || getClientSideEnvVar(..) || ""
inlineApiKey(c, e) == IF c # "" THEN c ELSE getClientSideEnvVar(e, 1)

\* the constructor of AITextTool: config?.apiKey || ""
blockApiKey(c, e) == c

(* ------------------------ the surrounding context -------------------- *)
(* The nodes getSurroundingContext looks at are the range's common ancestor *)
(* container and its ancestors: chain[1] is the container (a Text node or   *)
(* an element), chain[i + 1] the parent of chain[i]; the last one has no    *)
(* parent element.  A node is [el, marked, text]: whether it is an element, *)
(* whether it carries the attribute data-block, and its textContent.        *)
MaxDepth == 3
NotCalled == <<"-">>
NoCtx == [chain |-> <<>>, result |-> NotCalled]

\* Element.closest('[data-block]') from chain[i]: the first marked node from i on
Closest(chain, i) ==
  LET S == {j \in i..Len(chain) : chain[j].marked}
  IN  IF S = {} THEN 0 ELSE Min(S)

\* getSurroundingContext(range), for a range whose container has these ancestors
getSurroundingContext(chain) ==
  LET parentElement == IF Len(chain) >= 2 THEN 2 ELSE 0
      blockElement == IF parentElement = 0 THEN 0 ELSE Closest(chain, parentElement)
  IN  IF blockElement # 0 THEN chain[blockElement].text
      ELSE IF parentElement # 0 THEN chain[parentElement].text
      ELSE <<>>

(* ------------------- AITextInlineTool: the methods -------------------- *)
\* removeControls
removeControls(w) ==
  IF w.controlsContainer # 0 /\ Attached(w, "ctl", w.controlsContainer)
  THEN [WithD(w, DomRemove(D(w), PosOf(w.doc, "ctl", w.controlsContainer) - 1))
          EXCEPT !.controlsContainer = 0, !.ctlSpan[w.controlsContainer] = 0]
  ELSE w

\* the listener removed but the field left as it is
cleanupKeepingField(w) ==
  IF w.outsideClickHandler # 0
  THEN [w EXCEPT !.docListeners = @ \ {w.outsideClickHandler}]
  ELSE w

\* cleanupEventHandlers
cleanupEventHandlers(w) ==
  IF w.outsideClickHandler # 0
  THEN [w EXCEPT !.docListeners = @ \ {w.outsideClickHandler}, !.outsideClickHandler = 0]
  ELSE w

\* the new closure installed without removing the one the widget holds
setupKeepingOld(w) ==
  [w EXCEPT !.outsideClickHandler = Min(HandlerIds \ w.docListeners),
            !.timers = @ + 1]

\* setupOutsideClickHandler: drop the old listener, make a new closure, arm it in 100 ms
setupOutsideClickHandler(w) ==
  LET kept == IF w.outsideClickHandler # 0
              THEN w.docListeners \ {w.outsideClickHandler} ELSE w.docListeners
  IN  [w EXCEPT !.docListeners = kept,
                !.outsideClickHandler = Min(HandlerIds \ kept),
                !.timers = @ + 1]

\* the callback of the arming timer
armTimerFires(w) ==
  [w EXCEPT !.timers = @ - 1,
            !.docListeners = IF w.outsideClickHandler # 0
                             THEN @ \cup {w.outsideClickHandler} ELSE @]

\* the closure outsideClickHandler, run for a click whose target lies outside the
\* preview span and outside the controls
outsideClick(w) ==
  IF w.previewSpan # 0 /\ w.controlsContainer # 0 THEN removeControls(w) ELSE w

\* a click event that reaches document: every registered listener runs
documentClick(w) == IF w.docListeners # {} THEN outsideClick(w) ELSE w

\* showAcceptRejectControls(previewSpan, range)
showAcceptRejectControls(w, p) ==
  LET old == w.controlsContainer
      c   == Min({x \in CtlIds : ~Attached(w, "ctl", x)})
      w1  == IF old # 0 /\ ~Attached(w, "ctl", old) THEN [w EXCEPT !.ctlSpan[old] = 0] ELSE w
      w2  == [w1 EXCEPT !.controlsContainer = c, !.ctlSpan[c] = p]
      w3  == IF Attached(w2, "span", p)
             THEN WithD(w2, DomInsert(D(w2), PosOf(w2.doc, "span", p), CtlNode(c)))
             ELSE w2
  IN  setupOutsideClickHandler([w3 EXCEPT !.spanDown[p] = TRUE])

\* the input event dispatched a second time
triggerTwice(w) == [w EXCEPT !.inputEvents = @ + 2]

\* triggerEditorChange: the block element is the editable ancestor
triggerEditorChange(w) == [w EXCEPT !.inputEvents = @ + 1]

\* the text acceptChange puts into the text node: previewSpan.textContent
AcceptText(w, p) == w.spanText[p]
\* the text rejectChange puts into the text node: this.originalText
RejectText(w, p) == w.originalText

\* the notification moved out of the parentNode check
decideNotifying(w, p, t) ==
  LET w1 == IF Attached(w, "span", p)
            THEN WithD(w, ReplaceSpanByText(D(w), PosOf(w.doc, "span", p), t))
            ELSE w
  IN  [cleanupEventHandlers(removeControls(triggerEditorChange(w1))) EXCEPT !.previewSpan = 0]

\* the part acceptChange and rejectChange share: replace the span, normalize, notify,
\* then clean up
decide(w, p, t) ==
  LET w1 == IF Attached(w, "span", p)
            THEN triggerEditorChange(
                   WithD(w, ReplaceSpanByText(D(w), PosOf(w.doc, "span", p), t)))
            ELSE w
  IN  [cleanupEventHandlers(removeControls(w1)) EXCEPT !.previewSpan = 0]

acceptChange(w, p) ==
  [decide(w, p, AcceptText(w, p)) EXCEPT !.gen[p].committed = @ \/ Attached(w, "span", p)]
rejectChange(w, p) == decide(w, p, RejectText(w, p))

\* renderActions, whose container the host puts into the inline toolbar
renderActions(w) == [w EXCEPT !.actionsContainer = "attached"]

\* a clear that also forgets the preview span
clearForgetting(w) ==
  [cleanupEventHandlers(removeControls(w)) EXCEPT !.actionsContainer = "null",
                                                  !.snapshotTaken = FALSE,
                                                  !.previewSpan = 0]

\* clear; the invocation whose actions were shown is over
clear(w) ==
  [cleanupEventHandlers(removeControls(w)) EXCEPT !.actionsContainer = "null",
                                                  !.snapshotTaken = FALSE]

\* the ranges some invocation still waits to use
HeldRanges(w) == {w.gen[g].range : g \in {x \in Gens : w.gen[x].pc = "delay"}} \ {0}

\* a Range object nothing refers to any longer is dropped
DropRanges(w) ==
  [w EXCEPT !.ranges = [i \in RangeIds |->
      IF i = w.currentRange \/ i \in HeldRanges(w) THEN w.ranges[i] ELSE NoRange]]

\* range.toString().trim() of a selection inside the Text node at pos
SelectedText(w, pos, s, e) == Trim(SubSeq(w.doc[pos].t, s + 1, e))

\* a surround that does not look at the processing flag
surroundUnguarded(w, pos, s, e) ==
  IF SelectedText(w, pos, s, e) = <<>> THEN w
  ELSE LET rid == Min(RangeIds \ HeldRanges(w))
       IN  DropRanges([w EXCEPT !.snapshots = @ + 1, !.snapshotTaken = TRUE,
                                !.originalText = SelectedText(w, pos, s, e),
                                !.currentRange = rid,
                                !.ranges[rid] = [s |-> <<pos, s>>, e |-> <<pos, e>>],
                                !.currentSelectedText = SelectedText(w, pos, s, e)])

\* surround(range), for the selection [s, e) of the Text node at position pos
surround(w, pos, s, e) ==
  IF w.isProcessing THEN w
  ELSE IF SelectedText(w, pos, s, e) = <<>> THEN w
  ELSE LET rid == Min(RangeIds \ HeldRanges(w))
       IN  DropRanges([w EXCEPT !.snapshots = @ + 1, !.snapshotTaken = TRUE,
                                !.originalText = SelectedText(w, pos, s, e),
                                !.currentRange = rid,
                                !.ranges[rid] = [s |-> <<pos, s>>, e |-> <<pos, e>>],
                                !.currentSelectedText = SelectedText(w, pos, s, e)])

\* the first check without the trim
BlankUntrimmed(userPrompt) == userPrompt = <<>>

\* whether handleGenerate stops at its first check
BlankPrompt(userPrompt) == Trim(userPrompt) = <<>>

\* what handleGenerate does before it awaits: the check, the flag, the click on the editor
handleGenerateStart(w, userPrompt) ==
  IF BlankPrompt(userPrompt) THEN [w EXCEPT !.alert = TRUE]
  ELSE LET g == w.nGen + 1
       IN  [documentClick([w EXCEPT !.isProcessing = TRUE]) EXCEPT
              !.nGen = g,
              !.gen[g] = [NoGen EXCEPT !.pc = "delay",
                                       !.selectedText = w.currentSelectedText,
                                       !.userPrompt = userPrompt,
                                       !.range = w.currentRange]]

\* outputElement.textContent = t
writeOutput(w, g, t) == [w EXCEPT !.spanText[g] = t]

\* the end of handleGenerate, after generateTextWithStreaming has returned
finishGenerate(w, g) ==
  LET w1 == IF Attached(w, "spin", g)
            THEN WithD(w, DomRemove(D(w), PosOf(w.doc, "spin", g) - 1)) ELSE w
  IN  IF w1.previewSpan = 0
      THEN [w1 EXCEPT !.gen[g].pc = "crashed"]
      ELSE [showAcceptRejectControls([w1 EXCEPT !.spanHi[w1.previewSpan] = TRUE],
                                     w1.previewSpan)
              EXCEPT !.isProcessing = FALSE, !.gen[g].pc = "done"]

\* the request issued without the credential check
startStreamingUnchecked(w, g, key) ==
  [w EXCEPT !.requests = @ + 1, !.gen[g].pc = "streaming"]

\* generateTextWithStreaming up to its first await
startStreaming(w, g, key) ==
  IF ~key
  THEN finishGenerate([writeOutput(w, g, ErrNoKeyInline) EXCEPT !.gen[g].outcome = "nokey"], g)
  ELSE [w EXCEPT !.requests = @ + 1, !.gen[g].pc = "streaming"]

\* handleGenerate after its 50 ms delay: the preview span replaces the range's contents
handleGenerateReplace(w, g, key) ==
  LET rid == w.gen[g].range
  IN  IF rid = 0 THEN [w EXCEPT !.gen[g].pc = "crashed", !.gen[g].outcome = "norange"]
      ELSE LET w1 == [w EXCEPT !.previewSpan = g, !.spanText[g] = w.gen[g].selectedText]
               d1 == InsertNode(DeleteContents(D(w1), rid), rid, SpanNode(g))
               d2 == DomInsert(d1, PosOf(d1.doc, "span", g) - 1, SpinNode(g))
               w2 == DropRanges([WithD(w1, d2) EXCEPT !.gen[g].pc = "replaced"])
           IN  startStreaming(w2, g, key)

\* one iteration of `for await (const chunk of stream)`; frags is the history of
\* the contents that were not empty
onChunk(w, g, content) ==
  IF content # <<>>
  THEN writeOutput([w EXCEPT !.gen[g].frags = Append(@, content),
                             !.gen[g].fullText = AppendFragment(@, content)],
                   g, AppendFragment(w.gen[g].fullText, content))
  ELSE w

\* the check after the loop left out
NeverNoContent(fullText) == FALSE

\* whether the accumulator counts as "no content"
NoContent(fullText) == Trim(fullText) = <<>>

\* the stream has ended
onStreamEnd(w, g) ==
  finishGenerate(
    IF NoContent(w.gen[g].fullText)
    THEN [writeOutput(w, g, ErrNoContent) EXCEPT !.gen[g].outcome = "empty"]
    ELSE [w EXCEPT !.gen[g].outcome = "ok"], g)

\* create() or the stream has thrown: the catch clause
onStreamError(w, g) ==
  finishGenerate([writeOutput(w, g, ErrTransportInline) EXCEPT !.gen[g].outcome = "error"], g)

(* ---------------------- AITextTool: the methods ----------------------- *)
(* blk holds the block tool: _data, the rendered view ("none" before       *)
(* render, "prompt" or "readback"), the text of the prompt field and of    *)
(* the read-back div, the generate button, the click handler in flight     *)
(* (pc, its captured prompt, fullText) and what save() last returned.      *)
NoSave == [prompt |-> <<"-">>, generatedText |-> <<"-">>]

BlkInit(prompt, generatedText) ==
  [data |-> [prompt |-> prompt, generatedText |-> generatedText],
   view |-> "none", promptInput |-> <<>>, textDiv |-> <<>>,
   buttonShown |-> FALSE, buttonDisabled |-> FALSE,
   pc |-> "idle", prompt |-> <<>>, fullText |-> <<>>, frags |-> <<>>,
   outcome |-> "none", saved |-> NoSave]

\* the display decided without the trim: hidden only while the field is empty
ButtonShownUntrimmed(text) == text # <<>>

\* the display of the generate button: hidden while the prompt is blank
ButtonShown(text) == Trim(text) # <<>>

\* the view chosen by the prompt instead: read-back only for a block without a prompt
blkRenderByPrompt(b) ==
  IF b.data.generatedText # <<>> /\ b.data.prompt = <<>>
  THEN [b EXCEPT !.view = "readback", !.textDiv = b.data.generatedText]
  ELSE [b EXCEPT !.view = "prompt", !.promptInput = b.data.prompt,
                 !.buttonShown = ButtonShown(b.data.prompt)]

\* render
blkRender(b) ==
  IF b.data.generatedText # <<>>
  THEN [b EXCEPT !.view = "readback", !.textDiv = b.data.generatedText]
  ELSE [b EXCEPT !.view = "prompt", !.promptInput = b.data.prompt,
                 !.buttonShown = ButtonShown(b.data.prompt)]

\* the input listener of the prompt field
blkInput(b, text) == [b EXCEPT !.promptInput = text, !.buttonShown = ButtonShown(text)]

\* the click handler after `await this.generateText(...)`
blkAfterGenerate(b, generatedText) ==
  IF generatedText # <<>>
  THEN [b EXCEPT !.data = [prompt |-> b.prompt, generatedText |-> generatedText],
                 !.view = "readback", !.textDiv = generatedText, !.pc = "done"]
  ELSE [b EXCEPT !.pc = "done"]

\* the click handler that leaves the generate button enabled
blkClickEnabled(b, key) ==
  LET b1 == [b EXCEPT !.prompt = b.promptInput]
  IN  IF ~key THEN blkAfterGenerate([b1 EXCEPT !.outcome = "nokey"], ErrNoKeyBlock)
      ELSE IF BlankPrompt(b1.prompt)
      THEN blkAfterGenerate([b1 EXCEPT !.outcome = "blank"], ErrEmptyPrompt)
      ELSE [b1 EXCEPT !.pc = "streaming"]

\* the click handler up to the first await inside generateText
blkClick(b, key) ==
  LET b1 == [b EXCEPT !.prompt = b.promptInput, !.buttonDisabled = TRUE]
  IN  IF ~key THEN blkAfterGenerate([b1 EXCEPT !.outcome = "nokey"], ErrNoKeyBlock)
      ELSE IF BlankPrompt(b1.prompt)
      THEN blkAfterGenerate([b1 EXCEPT !.outcome = "blank"], ErrEmptyPrompt)
      ELSE [b1 EXCEPT !.pc = "streaming"]

\* one iteration of `for await (const chunk of stream)` of generateText
blkChunk(b, content) ==
  IF content # <<>>
  THEN [b EXCEPT !.frags = Append(@, content),
                 !.fullText = AppendFragment(@, content),
                 !.promptInput = AppendFragment(b.fullText, content)]
  ELSE b

\* the stream has ended: the value generateText returns
blkStreamEnd(b) ==
  IF ~NoContent(b.fullText)
  THEN blkAfterGenerate([b EXCEPT !.outcome = "ok"], Trim(b.fullText))
  ELSE blkAfterGenerate([b EXCEPT !.outcome = "empty"], ErrNoContent)

\* create() or the stream has thrown: the catch clause of generateText
blkStreamError(b) == blkAfterGenerate([b EXCEPT !.outcome = "error"], ErrTransportBlock)

\* save(blockContent)
blkSave(b) ==
  [b EXCEPT !.saved =
     IF b.data.generatedText # <<>>
     THEN [prompt |-> b.data.prompt,
           generatedText |-> IF b.view = "readback" THEN Trim(b.textDiv) ELSE <<>>]
     ELSE [prompt |-> IF b.view = "prompt" THEN Trim(b.promptInput) ELSE <<>>,
           generatedText |-> <<>>]]

(* --------------------------- initial state ---------------------------- *)
Init ==
  /\ tool \in {"inline", "block"}
  /\ cfgKey \in {"", "sk-config"}
  /\ env = [i \in 1..Len(EnvNames) |-> ""]
  /\ cred = IF tool = "inline" THEN inlineApiKey(cfgKey, env) ELSE blockApiKey(cfgKey, env)
  /\ apiKey = (cred # "")
  /\ ctx = NoCtx
  /\ requests = 0
  /\ lastOp = <<"init", 0, 0>>
  /\ doc = <<TextNode(InitialText)>>
  /\ ranges = [i \in RangeIds |-> NoRange]
  /\ spanText = [g \in Gens |-> <<>>]
  /\ spanHi = [g \in Gens |-> FALSE]
  /\ spanDown = [g \in Gens |-> FALSE]
  /\ ctlSpan = [c \in CtlIds |-> 0]
  /\ docListeners = {}
  /\ timers = 0
  /\ inputEvents = 0
  /\ alertShown = FALSE
  /\ snapshots = 0
  /\ snapshotTaken = FALSE
  /\ isProcessing = FALSE
  /\ previewSpan = 0
  /\ originalText = <<>>
  /\ controlsContainer = 0
  /\ currentRange = 0
  /\ currentSelectedText = <<>>
  /\ actionsContainer = "null"
  /\ outsideClickHandler = 0
  /\ gen = [g \in Gens |-> NoGen]
  /\ nGen = 0
  /\ \E p \in {<<>>, <<"p">>}, t \in {<<>>, <<"y">>} :
       blk = IF tool = "block" THEN BlkInit(p, t) ELSE BlkInit(<<>>, <<>>)

(* ------------------------ inline tool: actions ------------------------ *)
Step == <<"step", 0, 0>>

\* what the user typed: 0 nothing, 1 blanks only, 2 an instruction
PromptKind(userPrompt) ==
  IF userPrompt = <<>> THEN 0 ELSE IF \A i \in 1..Len(userPrompt) : userPrompt[i] = " " THEN 1 ELSE 2

\* accept or reject through a button bound to span p; the third component is 1 when
\* the span is in the document, 2 when the operation before was an accept or a
\* reject that replaced this span (or one that followed such a one), 0 otherwise
Decision(op, p) ==
  <<op, p, IF PosOf(doc, "span", p) > 0 THEN 1
           ELSE IF lastOp[1] \in {"accept", "reject"} /\ lastOp[2] = p /\ lastOp[3] > 0
           THEN 2 ELSE 0>>

\* a preview span that is out of the document once its invocation is over can never
\* come back: nothing reads it or the invocation's locals again
Collect(w) ==
  LET dead(g) == w.gen[g].pc \in {"done", "crashed"} /\ ~Attached(w, "span", g)
  IN  [w EXCEPT !.spanText = [g \in Gens |-> IF dead(g) THEN <<>> ELSE w.spanText[g]],
                !.spanHi = [g \in Gens |-> IF dead(g) THEN FALSE ELSE w.spanHi[g]],
                !.spanDown = [g \in Gens |-> IF dead(g) THEN FALSE ELSE w.spanDown[g]],
                !.gen = [g \in Gens |->
                           IF dead(g)
                           THEN [NoGen EXCEPT !.pc = w.gen[g].pc, !.outcome = w.gen[g].outcome]
                           ELSE w.gen[g]]]

Inline(op, w) ==
  /\ tool = "inline"
  /\ \E x \in {Collect(w)} : Set(x)
  /\ lastOp' = op
  /\ UNCHANGED <<tool, credVars, ctx, apiKey, blk>>

\* the user selects [s, e) of the Text node at pos and activates the tool: the host
\* shows the tool's actions and calls surround with the selection's range
Invoke(pos, s, e) ==
  /\ actionsContainer = "null"
  /\ \/ snapshots < MaxSnapshots
     \/ surround(W, pos, s, e) = W
  /\ Inline(<<"surround", 0, 0>>, renderActions(surround(W, pos, s, e)))

\* the host closes the inline toolbar: clear
Clear ==
  /\ actionsContainer = "attached"
  /\ Inline(Step, clear(W))

\* the go button is activated; the click that handleGenerate sends to the editor
\* closes the inline toolbar, and the host calls clear
Submit(userPrompt) ==
  /\ actionsContainer = "attached" /\ nGen < MaxGen
  /\ LET w == handleGenerateStart(W, userPrompt)
     IN  Inline(<<"submit", w.nGen - nGen, PromptKind(userPrompt)>>,
                IF w.nGen > nGen THEN clear(w) ELSE w)

\* the 50 ms delay of an invocation is over
Replace(g) ==
  /\ gen[g].pc = "delay" /\ timers < MaxTimers
  /\ Inline(Step, handleGenerateReplace(W, g, apiKey))

Chunk(g, content) ==
  /\ gen[g].pc = "streaming"
  /\ content # <<>> => Len(gen[g].frags) < MaxChunks
  /\ Inline(Step, onChunk(W, g, content))

StreamEnd(g) ==
  /\ gen[g].pc = "streaming" /\ timers < MaxTimers
  /\ Inline(Step, onStreamEnd(W, g))

StreamError(g) ==
  /\ gen[g].pc = "streaming" /\ timers < MaxTimers
  /\ Inline(Step, onStreamError(W, g))

ArmTimer ==
  /\ timers > 0
  /\ Inline(Step, armTimerFires(W))

\* the user clicks somewhere outside the preview span and the controls
OutsideClick ==
  /\ docListeners # {}
  /\ Inline(Step, documentClick(W))

\* the mousedown listener of a preview span that is in the document
onMouseDown(w, p) ==
  IF w.controlsContainer = 0 \/ ~Attached(w, "ctl", w.controlsContainer)
  THEN showAcceptRejectControls(w, p) ELSE w

MouseDown(p) ==
  /\ Attached(W, "span", p) /\ spanDown[p] /\ timers < MaxTimers
  /\ Inline(Step, onMouseDown(W, p))

\* the accept button of a controls container that is in the document
Accept(c) ==
  /\ Attached(W, "ctl", c)
  /\ Inline(Decision("accept", ctlSpan[c]), acceptChange(W, ctlSpan[c]))

\* the reject button of a controls container that is in the document
Reject(c) ==
  /\ Attached(W, "ctl", c)
  /\ Inline(Decision("reject", ctlSpan[c]), rejectChange(W, ctlSpan[c]))

(* ------------------------ block tool: actions ------------------------- *)
Block(b, r) ==
  /\ tool = "block"
  /\ blk' = b
  /\ requests' = r
  /\ lastOp' = Step
  /\ UNCHANGED <<tool, credVars, ctx, apiKey, inlineVars>>

BlkRender ==
  /\ blk.view = "none"
  /\ Block(blkRender(blk), requests)

\* the user types into the prompt field
BlkInput(text) ==
  /\ blk.view = "prompt" /\ blk.pc = "idle"
  /\ Block(blkInput(blk, text), requests)

\* the generate button is shown and enabled, and is activated
BlkClick ==
  /\ blk.view = "prompt" /\ blk.buttonShown /\ ~blk.buttonDisabled
  /\ Block(blkClick(blk, apiKey),
           IF blkClick(blk, apiKey).pc = "streaming" THEN requests + 1 ELSE requests)

BlkChunk(content) ==
  /\ blk.pc = "streaming"
  /\ content # <<>> => Len(blk.frags) < MaxChunks
  /\ Block(blkChunk(blk, content), requests)

BlkStreamEnd ==
  /\ blk.pc = "streaming"
  /\ Block(blkStreamEnd(blk), requests)

BlkStreamError ==
  /\ blk.pc = "streaming"
  /\ Block(blkStreamError(blk), requests)

BlkSave ==
  /\ blk.view # "none"
  /\ Block(blkSave(blk), requests)

(* --------------------------- specification ---------------------------- *)
Next ==
  \/ \E pos \in 1..Len(doc) : \E sel \in Selections(doc[pos].t) : Invoke(pos, sel[1], sel[2])
  \/ Clear
  \/ \E userPrompt \in Prompts : Submit(userPrompt)
  \/ \E g \in Gens : Replace(g)
  \/ \E g \in Gens, content \in Fragments : Chunk(g, content)
  \/ \E g \in Gens : StreamEnd(g)
  \/ \E g \in Gens : StreamError(g)
  \/ ArmTimer
  \/ OutsideClick
  \/ \E p \in Gens : MouseDown(p)
  \/ \E c \in CtlIds : Accept(c)
  \/ \E c \in CtlIds : Reject(c)
  \/ BlkRender
  \/ \E text \in Prompts : BlkInput(text)
  \/ BlkClick
  \/ \E content \in Fragments : BlkChunk(content)
  \/ BlkStreamEnd
  \/ BlkStreamError
  \/ BlkSave

Spec == Init /\ [][Next]_vars

(* -------------- credential resolution: the constructors --------------- *)
\* the environments: each name is absent or holds a value of its own
Envs == {e \in [1..Len(EnvNames) -> {""} \cup {"sk-env-" \o EnvNames[i] : i \in 1..Len(EnvNames)}] :
           \A i \in 1..Len(EnvNames) : e[i] \in {"", "sk-env-" \o EnvNames[i]}}

\* before construction: the host's configuration and the environment are given
InitCred ==
  /\ tool \in {"inline", "block"}
  /\ cfgKey \in {"", "sk-config"}
  /\ env \in Envs
  /\ cred = "-"
  /\ ctx = NoCtx
  /\ apiKey = FALSE
  /\ requests = 0
  /\ lastOp = <<"init", 0, 0>>
  /\ doc = <<TextNode(InitialText)>>
  /\ ranges = [i \in RangeIds |-> NoRange]
  /\ spanText = [g \in Gens |-> <<>>]
  /\ spanHi = [g \in Gens |-> FALSE]
  /\ spanDown = [g \in Gens |-> FALSE]
  /\ ctlSpan = [c \in CtlIds |-> 0]
  /\ docListeners = {}
  /\ timers = 0
  /\ inputEvents = 0
  /\ alertShown = FALSE
  /\ snapshots = 0
  /\ snapshotTaken = FALSE
  /\ isProcessing = FALSE
  /\ previewSpan = 0
  /\ originalText = <<>>
  /\ controlsContainer = 0
  /\ currentRange = 0
  /\ currentSelectedText = <<>>
  /\ actionsContainer = "null"
  /\ outsideClickHandler = 0
  /\ gen = [g \in Gens |-> NoGen]
  /\ nGen = 0
  /\ blk = BlkInit(<<>>, <<>>)

Construct(key) ==
  /\ cred = "-"
  /\ cred' = key
  /\ apiKey' = (key # "")
  /\ lastOp' = <<"construct", 0, 0>>
  /\ UNCHANGED <<tool, cfgKey, env, ctx, requests, inlineVars, blk>>

\* new AITextInlineTool({api, config})
ConstructInline == tool = "inline" /\ Construct(inlineApiKey(cfgKey, env))

\* new AITextTool({data, config, api, readOnly, block})
ConstructBlock == tool = "block" /\ Construct(blockApiKey(cfgKey, env))

NextCred == ConstructInline \/ ConstructBlock

SpecCred == InitCred /\ [][NextCred]_vars

(* ------------------ context extraction: the function ------------------ *)
\* the ancestor chains: a Text node or an element as container, up to MaxDepth
\* nodes, any of the elements marked, each node's text that of its child followed
\* by text of its own (or by none)
Chains ==
  {c \in UNION {[1..n -> [el : BOOLEAN, marked : BOOLEAN,
                           text : {<<>>, <<"s">>, <<"s", "u">>, <<"s", "u", "v">>,
                                   <<"u">>, <<"u", "v">>, <<"s", "v">>, <<"v">>}]] :
                   n \in 1..MaxDepth} :
     /\ \A i \in 2..Len(c) : c[i].el
     /\ ~c[1].el => ~c[1].marked
     /\ c[1].text \in {<<>>, <<"s">>}
     /\ Len(c) >= 2 => c[2].text \in {c[1].text, c[1].text \o <<"u">>}
     /\ Len(c) >= 3 => c[3].text \in {c[2].text, c[2].text \o <<"v">>}}

InitCtx ==
  /\ tool = "inline"
  /\ cfgKey = ""
  /\ env = [i \in 1..Len(EnvNames) |-> ""]
  /\ cred = ""
  /\ ctx \in {[chain |-> c, result |-> NotCalled] : c \in Chains}
  /\ apiKey = FALSE
  /\ requests = 0
  /\ lastOp = <<"init", 0, 0>>
  /\ doc = <<TextNode(InitialText)>>
  /\ ranges = [i \in RangeIds |-> NoRange]
  /\ spanText = [g \in Gens |-> <<>>]
  /\ spanHi = [g \in Gens |-> FALSE]
  /\ spanDown = [g \in Gens |-> FALSE]
  /\ ctlSpan = [c \in CtlIds |-> 0]
  /\ docListeners = {}
  /\ timers = 0
  /\ inputEvents = 0
  /\ alertShown = FALSE
  /\ snapshots = 0
  /\ snapshotTaken = FALSE
  /\ isProcessing = FALSE
  /\ previewSpan = 0
  /\ originalText = <<>>
  /\ controlsContainer = 0
  /\ currentRange = 0
  /\ currentSelectedText = <<>>
  /\ actionsContainer = "null"
  /\ outsideClickHandler = 0
  /\ gen = [g \in Gens |-> NoGen]
  /\ nGen = 0
  /\ blk = BlkInit(<<>>, <<>>)

\* const context = this.getSurroundingContext(range)
GetContext ==
  /\ ctx.result = NotCalled
  /\ ctx' = [ctx EXCEPT !.result = getSurroundingContext(ctx.chain)]
  /\ lastOp' = <<"context", 0, 0>>
  /\ UNCHANGED <<tool, credVars, apiKey, requests, inlineVars, blk>>

NextCtx == GetContext

SpecCtx == InitCtx /\ [][NextCtx]_vars


(* ------------------------------ claims -------------------------------- *)
\* C1, as stated: at most one generation of a widget instance is in flight (submitted,
\* its stream not yet ended) at any time, so a submit made while one is in flight
\* issues no second request and replaces no range a second time.
C1_SingleFlight ==
  Cardinality({g \in Gens : gen[g].pc \in {"delay", "streaming"}}) <= 1

\* C2, as stated: a reject that replaces the preview span of a completed generation
\* puts in its place the text that was snapshotted for that generation (the selected
\* text its submit captured), whatever happened since the stream ended, and leaves
\* neither the span nor a controls container bound to it in the document.
C2_RejectRestoresSnapshot ==
  [][(lastOp'[1] = "reject" /\ lastOp'[3] = 1 /\ gen[lastOp'[2]].pc = "done") =>
       LET p == lastOp'[2]
           notCtl(n) == n.k # "ctl"
       IN  /\ BlockText(SelectSeq(doc', notCtl), spanText')
                = BlockText(SelectSeq(doc, notCtl),
                            [spanText EXCEPT ![p] = gen[p].selectedText])
           /\ \A i \in 1..Len(doc') :
                /\ ~(doc'[i].k = "span" /\ doc'[i].id = p)
                /\ ~(doc'[i].k = "ctl" /\ ctlSpan'[doc'[i].id] = p)]_vars

\* C3, as stated: an accept that replaces the preview span of a completed, successful
\* generation puts in its place the concatenation of the streamed fragments in
\* arrival order, and afterwards the document holds no preview span and no controls
\* container of the widget.
C3_AcceptCommitsFragments ==
  [][(/\ lastOp'[1] = "accept" /\ lastOp'[3] = 1
      /\ gen[lastOp'[2]].pc = "done" /\ gen[lastOp'[2]].outcome = "ok") =>
       LET p == lastOp'[2]
           notCtl(n) == n.k # "ctl"
       IN  /\ BlockText(SelectSeq(doc', notCtl), spanText')
                = BlockText(SelectSeq(doc, notCtl),
                            [spanText EXCEPT ![p] = Concat(gen[p].frags)])
           /\ \A i \in 1..Len(doc') : doc'[i].k \notin {"span", "ctl"}]_vars

\* C4, as stated: generate followed by reject is the identity on the block's text,
\* whatever the selection and whenever the reject comes.  Stated for the first
\* generation of a widget, before whose submit the block's text is InitialText and
\* during which nothing else changes the block.
C4_GenerateRejectIdentity ==
  [][(lastOp'[1] = "reject" /\ lastOp'[3] = 1 /\ nGen = 1) =>
       BlockText(doc', spanText') = InitialText]_vars

\* C5: an accept or a reject that comes right after an accept or a reject of the same
\* preview span changes nothing: the document, the widget's fields, the listeners on
\* document and on the spans and the pending timers stay as they are, and no input
\* event is dispatched.
C5_SecondDecisionNoOp ==
  [][(lastOp'[1] \in {"accept", "reject"} /\ lastOp'[3] = 2) =>
       /\ UNCHANGED <<doc, ranges, spanText, spanHi, spanDown, ctlSpan, docListeners,
                      timers, requests, gen, nGen>>
       /\ UNCHANGED <<isProcessing, previewSpan, originalText, controlsContainer,
                      currentRange, currentSelectedText, actionsContainer,
                      outsideClickHandler>>
       /\ inputEvents' = 0]_vars

\* C5: a second decision in succession has happened, through a controls container
\* that the first decision left in the document
C5_Witness ==
  /\ lastOp[1] \in {"accept", "reject"} /\ lastOp[3] = 2
  /\ \E c \in CtlIds : PosOf(doc, "ctl", c) > 0 /\ ctlSpan[c] = lastOp[2]

\* C6: a submit with an empty or blanks-only instruction raises the alert and nothing
\* else: no request, no generation started, the processing flag, the document, the
\* ranges and every field of the widget as before.
C6_BlankSubmitChangesNothing ==
  [][(lastOp'[1] = "submit" /\ lastOp'[3] \in {0, 1}) =>
       /\ alertShown' /\ inputEvents' = 0
       /\ UNCHANGED <<doc, ranges, spanText, spanHi, spanDown, ctlSpan, docListeners,
                      timers, requests, gen, nGen, snapshots>>
       /\ UNCHANGED <<isProcessing, previewSpan, originalText, controlsContainer,
                      currentRange, currentSelectedText, actionsContainer,
                      outsideClickHandler>>]_vars

\* C6: a blanks-only instruction has been submitted
C6_Witness ==
  /\ lastOp = <<"submit", 0, 1>> /\ alertShown
  /\ currentRange # 0 /\ currentSelectedText # <<>>

\* C7: in both widgets, when a fragment with content has been applied the output
\* node's text is the concatenation of the fragments with content so far, and the
\* text rendered before it is a prefix of it.
C7_IncrementalRendering ==
  [][/\ \A g \in Gens :
          (gen'[g].pc = "streaming" /\ gen'[g].frags # gen[g].frags) =>
            /\ spanText'[g] = Concat(gen'[g].frags)
            /\ gen[g].frags # <<>> => IsPrefix(spanText[g], spanText'[g])
     /\ (blk'.pc = "streaming" /\ blk'.frags # blk.frags) =>
            /\ blk'.promptInput = Concat(blk'.frags)
            /\ blk.frags # <<>> => IsPrefix(blk.promptInput, blk'.promptInput)]_vars

\* C7: a second fragment with content has been rendered into a preview span
C7_Witness ==
  \E g \in Gens :
    /\ gen[g].pc = "streaming" /\ Len(gen[g].frags) = 2
    /\ spanText[g] = gen[g].frags[1] \o gen[g].frags[2]

C9_NoContentMessage ==
  /\ \A g \in Gens :
       (/\ gen[g].outcome \in {"ok", "empty"} /\ gen[g].frags = <<>>
        /\ PosOf(doc, "span", g) > 0) => spanText[g] = ErrNoContent
  /\ (blk.outcome \in {"ok", "empty"} /\ blk.frags = <<>>) =>
       blk.view = "readback" /\ blk.textDiv = ErrNoContent

\* C9: a stream of the inline tool has ended without content and its preview span
\* shows the message instead of the seed text
C9_Witness ==
  \E g \in Gens :
    /\ gen[g].pc = "done" /\ gen[g].outcome = "empty" /\ gen[g].frags = <<>>
    /\ PosOf(doc, "span", g) > 0 /\ spanText[g] = ErrNoContent
    /\ gen[g].selectedText # ErrNoContent

\* C10, as stated: when create() or the stream fails, the output shows the one error
\* string, and the text accumulated before the failure is neither shown nor
\* committed: the preview span has not been replaced by its text through an accept,
\* and the block tool records and shows the error string only.
C10_FailureShowsErrorOnly ==
  [][/\ \A g \in Gens :
          (gen[g].pc = "streaming" /\ gen'[g].outcome = "error") =>
            /\ ~gen[g].committed
            /\ PosOf(doc', "span", g) > 0 => spanText'[g] = ErrTransportInline
     /\ (blk.pc = "streaming" /\ blk'.outcome = "error") =>
            /\ blk'.view = "readback" /\ blk'.textDiv = ErrTransportBlock
            /\ blk'.data.generatedText = ErrTransportBlock]_vars

\* C11, as stated: the block tool records generatedText and swaps to the read-back
\* view only after a successful generation; when the generate call reports an error
\* (missing credential, blank prompt, transport failure, empty response) the block
\* data is unchanged: generatedText stays empty and the prompt-entry view remains.
C11_ErrorLeavesBlockUnchanged ==
  blk.outcome \in {"nokey", "blank", "error", "empty"} =>
    blk.data.generatedText = <<>> /\ blk.view = "prompt"

\* C12: once rendered, the block shows the read-back view, seeded with the persisted
\* generatedText, exactly when generatedText is not empty, whatever the prompt is,
\* and the prompt-entry view otherwise.
C12_ViewByGeneratedText ==
  blk.view # "none" =>
    IF blk.data.generatedText # <<>>
    THEN blk.view = "readback" /\ blk.textDiv = blk.data.generatedText
    ELSE blk.view = "prompt"

\* C12: a block persisted with a prompt and a generated text has been rendered, and
\* shows the read-back view
C12_Witness ==
  /\ blk.pc = "idle" /\ blk.view = "readback"
  /\ blk.data = [prompt |-> <<"p">>, generatedText |-> <<"y">>]
  /\ blk.textDiv = <<"y">>

\* C13, as stated: while a preview span awaits its decision, a click outside the
\* preview and the controls removes the controls of that preview and nothing else:
\* the span, its text and its highlight stay and nothing is committed, reverted or
\* notified; a later mousedown on the span puts controls bound to it right after it;
\* and an accept or a reject after hide and restore has the result it would have had
\* before the hide.
C13_HideAndRestore ==
  [][LET awaiting(p) == PosOf(doc, "span", p) > 0 /\ gen[p].pc = "done"
         shown(d, cs, p) == \E i \in 1..Len(d) : d[i].k = "ctl" /\ cs[d[i].id] = p
         notCtl(n) == n.k # "ctl"
         result(w) == <<w.doc, w.spanText, w.spanHi, w.previewSpan, w.controlsContainer,
                        w.docListeners, w.outsideClickHandler, w.originalText,
                        w.inputEvents>>
     IN  /\ OutsideClick =>
               \A p \in Gens : (awaiting(p) /\ shown(doc, ctlSpan, p)) =>
                 /\ ~shown(doc', ctlSpan', p)
                 /\ PosOf(doc', "span", p) > 0
                 /\ spanText'[p] = spanText[p] /\ spanHi'[p] = spanHi[p]
                 /\ gen'[p] = gen[p] /\ inputEvents' = 0
                 /\ SelectSeq(doc', notCtl) = SelectSeq(doc, notCtl)
                 /\ result(acceptChange(onMouseDown(W', p), p)) = result(acceptChange(W, p))
                 /\ result(rejectChange(onMouseDown(W', p), p)) = result(rejectChange(W, p))
         /\ \A p \in Gens :
               (MouseDown(p) /\ awaiting(p) /\ ~shown(doc, ctlSpan, p)) =>
                 /\ PosOf(doc', "span", p) > 0
                 /\ PosOf(doc', "span", p) < Len(doc')
                 /\ doc'[PosOf(doc', "span", p) + 1].k = "ctl"
                 /\ ctlSpan'[doc'[PosOf(doc', "span", p) + 1].id] = p
                 /\ spanText'[p] = spanText[p] /\ spanHi'[p] = spanHi[p]]_vars

\* C14: in every state at most one outside-click handler of the widget is registered
\* on document, and a registered handler is the one the widget holds in
\* outsideClickHandler; this holds across show, hide, restore, accept, reject and
\* clear, also when a restore comes while an earlier arming timer is pending.
C14_OneHandlerRegistered ==
  /\ Cardinality(docListeners) <= 1
  /\ docListeners # {} => outsideClickHandler # 0 /\ docListeners = {outsideClickHandler}

\* C14: controls have been restored while the arming timer of an earlier show was
\* still pending, and a timer has since registered the handler the widget holds
C14_Witness ==
  /\ timers = 1 /\ outsideClickHandler # 0 /\ docListeners = {outsideClickHandler}
  /\ \E p \in Gens : PosOf(doc, "span", p) > 0 /\ spanDown[p]

\* C15: an accept or a reject leaves no outside-click handler registered on document
\* and clears the widget's handler, preview and controls references; and as long as
\* the widget holds no handler nothing gets registered, so an arming timer that was
\* scheduled before the decision and fires after it registers nothing.
C15_DecisionUnregisters ==
  [][/\ lastOp'[1] \in {"accept", "reject"} =>
          /\ docListeners' = {} /\ outsideClickHandler' = 0
          /\ previewSpan' = 0 /\ controlsContainer' = 0
     /\ (outsideClickHandler = 0 /\ outsideClickHandler' = 0) =>
          docListeners = {} /\ docListeners' = {}]_vars

\* C15: a preview span has been accepted or rejected while an arming timer scheduled
\* before the decision is still pending
C15_Witness ==
  /\ lastOp[1] \in {"accept", "reject"} /\ lastOp[3] = 1
  /\ timers > 0 /\ docListeners = {} /\ outsideClickHandler = 0

\* C16, as stated: the key a widget holds after construction is the explicitly
\* configured apiKey when there is one, otherwise the first non-empty value among
\* NEXT_PUBLIC_<KEY>, VITE_<KEY>, REACT_APP_<KEY>, <KEY> and window.env.<KEY> in that
\* order, and it is empty only when all of these are absent.
C16_CredentialResolution ==
  cred # "-" =>
    LET found == {i \in 1..Len(EnvNames) : env[i] # ""}
    IN  /\ cfgKey # "" => cred = cfgKey
        /\ (cfgKey = "" /\ found # {}) => cred = env[Min(found)]
        /\ (cfgKey = "" /\ found = {}) <=> cred = ""

\* C17, as stated, for the prompt and for generations that did not end in an error:
\* whenever the host calls save(), the prompt it returns is the prompt the user
\* entered (the prompt field before a generation, the submitted prompt from the click
\* on) up to surrounding blanks, never streamed output; the generatedText it returns
\* is empty or the generated text, and after a successful generation it is the
\* generated text.
C17_SaveReturnsUserPrompt ==
  [][BlkSave =>
       LET entered == IF blk.pc # "idle" THEN blk.prompt
                      ELSE IF blk.view = "prompt" THEN blk.promptInput
                      ELSE blk.data.prompt
           generated == IF blk.pc = "idle" THEN blk.data.generatedText
                        ELSE Trim(Concat(blk.frags))
       IN  /\ Trim(blk'.saved.prompt) = Trim(entered)
           /\ blk.outcome \in {"none", "ok"} => blk'.saved.generatedText \in {<<>>, generated}
           /\ blk.outcome = "ok" => blk'.saved.generatedText = generated]_vars

\* C18, as stated: a generation starts only after the surround call of the current
\* invocation has taken a snapshot: at every submit that starts one, that surround
\* call stored a range and a non-empty selected text, and these are what the
\* generation is given; handleGenerate never runs on a missing range or on what an
\* earlier invocation left behind.
C18_GenerateOnlyAfterSnapshot ==
  [][\A g \in Gens :
       (gen[g].pc = "none" /\ gen'[g].pc = "delay") =>
         /\ snapshotTaken
         /\ gen'[g].range # 0 /\ gen'[g].range = currentRange
         /\ gen'[g].selectedText # <<>>]_vars

\* C19, as stated: a preview span whose own stream has not ended carries no highlight
\* and has no controls container in the document through which it could be accepted
\* or rejected.
C19_NoDecisionWhileStreaming ==
  \A g \in Gens :
    gen[g].pc = "streaming" =>
      /\ ~spanHi[g]
      /\ \A i \in 1..Len(doc) : doc[i].k = "ctl" => ctlSpan[doc[i].id] # g

\* C20, as stated: when a generation replaces the contents of its range by the
\* preview span and starts to stream, the span is in the document with the selected
\* text as its text and the text of the block is what it was before the step, so
\* nothing changes visibly until the first fragment or an error string is written.
C20_ReplaceKeepsText ==
  [][\A g \in Gens :
       (gen[g].pc = "delay" /\ gen'[g].pc = "streaming") =>
         /\ PosOf(doc', "span", g) > 0
         /\ spanText'[g] = gen[g].selectedText
         /\ BlockText(doc', spanText') = BlockText(doc, spanText)]_vars

\* C21: a handler dispatches an input event to the editable block exactly when it is
\* an accept or a reject that has replaced a preview span, and then it dispatches one;
\* every other step (outside click, controls restore, clear, a decision on a span
\* that is no longer in the document, ...) dispatches none.
C21_OneNotificationPerDecision ==
  [][/\ inputEvents' = IF lastOp'[1] \in {"accept", "reject"} /\ lastOp'[3] = 1 THEN 1 ELSE 0
     /\ (lastOp'[1] \in {"accept", "reject"} /\ lastOp'[3] = 1) =>
          PosOf(doc, "span", lastOp'[2]) > 0 /\ PosOf(doc', "span", lastOp'[2]) = 0]_vars

\* C21: a reject has replaced a preview span and one input event was dispatched
C21_Witness ==
  /\ lastOp[1] = "reject" /\ lastOp[3] = 1 /\ inputEvents = 1
  /\ PosOf(doc, "span", lastOp[2]) = 0

\* C22, as stated: every submission that passes the blank-prompt check issues exactly
\* one chat-completion request when a credential is present, and none otherwise; no
\* other step (a chunk, an error, an empty response, a decision) issues a request,
\* so the requests never exceed the submissions.
C22_OneRequestPerSubmission ==
  [][IF tool = "inline"
     THEN LET started == {g \in Gens : gen[g].pc = "delay" /\ gen'[g].pc # "delay"}
          IN  /\ requests' = requests + (IF apiKey THEN Cardinality(started) ELSE 0)
              /\ requests' <= nGen'
     ELSE /\ requests' = requests + (IF /\ blk.pc = "idle" /\ blk'.pc # "idle"
                                        /\ apiKey /\ ~BlankPrompt(blk'.prompt)
                                     THEN 1 ELSE 0)
          /\ requests' <= 1]_vars

\* C23, as stated: the context returned for a range is the text of the nearest node
\* marked data-block that encloses the selection, the range's common ancestor
\* container itself included when it is the marked element; without such a node it
\* is the text of the container's parent element, and the empty text when there is
\* none; the call changes nothing in the document or the widget.
C23_ContextOfNearestBlock ==
  [][GetContext =>
       LET chain == ctx.chain
           marked == {j \in 1..Len(chain) : chain[j].marked}
       IN  /\ ctx'.result = IF marked # {} THEN chain[Min(marked)].text
                            ELSE IF Len(chain) >= 2 THEN chain[2].text
                            ELSE <<>>
           /\ UNCHANGED <<inlineVars, requests>>]_vars

\* C24, as stated: an accept or a reject that has replaced a preview span discards
\* the snapshot: afterwards the widget holds no range, no selected text and no
\* original text, so that a later submit has nothing of the decided generation to use.
C24_SnapshotDiscardedAfterDecision ==
  [][(lastOp'[1] \in {"accept", "reject"} /\ lastOp'[3] = 1) =>
       /\ currentRange' = 0
       /\ currentSelectedText' = <<>>
       /\ originalText' = <<>>]_vars

\* C25: after render the block's view changes at most once, from the prompt-entry
\* view to the read-back view, and never away from the read-back view; the generate
\* button is disabled by its first activation and stays disabled, a request is
\* issued only by an activation of the enabled button, and so at most one request
\* is issued however often the button is activated while the first is in flight.
C25_OneWayViewOneRequest ==
  [][tool = "block" =>
       /\ blk'.view # blk.view =>
            \/ blk.view = "none"
            \/ blk.view = "prompt" /\ blk'.view = "readback"
       /\ blk.buttonDisabled => blk'.buttonDisabled
       /\ (blk.pc = "idle" /\ blk'.pc # "idle") => blk'.buttonDisabled
       /\ blk'.pc # "idle" => blk'.buttonDisabled
       /\ requests' # requests =>
            /\ requests' = requests + 1
            /\ ~blk.buttonDisabled /\ blk.pc = "idle" /\ blk'.pc = "streaming"
       /\ requests' <= 1]_vars

\* C25: a request is in flight, its first chunk has arrived, the button is disabled
C25_Witness ==
  /\ tool = "block" /\ blk.view = "prompt" /\ blk.pc = "streaming"
  /\ blk.frags # <<>> /\ blk.buttonDisabled /\ requests = 1

\* C26: whenever the prompt-entry view is shown and no click is being handled (after
\* render and after every input event), the generate button is hidden exactly when
\* the prompt field is empty or holds blanks only; the click handler therefore starts
\* only from a shown button and never with a blank prompt.
C26_ButtonHiddenIffBlank ==
  [][tool = "block" =>
       /\ (blk'.view = "prompt" /\ blk'.pc = "idle") =>
            (blk'.buttonShown <=> Trim(blk'.promptInput) # <<>>)
       /\ (blk.pc = "idle" /\ blk'.pc # "idle") =>
            /\ blk.buttonShown
            /\ Trim(blk'.prompt) # <<>>
            /\ blk'.outcome # "blank"]_vars

\* C26: the user has typed blanks only and the button is hidden
C26_Witness ==
  /\ tool = "block" /\ blk.view = "prompt" /\ blk.pc = "idle"
  /\ blk.promptInput = <<" ">> /\ ~blk.buttonShown

\* C27, as stated, in its safety form: the processing flag is set only while some
\* handleGenerate invocation is still on its way to the statement that clears it
\* (it waits for its delay to pass or for its stream to end or fail); once every
\* invocation is over, the flag is clear, so that no sequence of operations leaves
\* it set with nothing left to clear it.
C27_FlagClearedWhenGenerationsOver ==
  isProcessing => \E g \in Gens : gen[g].pc \in {"delay", "streaming"}

\* C28, as stated: in every reachable state at most one preview span is in the
\* document, and a preview span that is in the document is the one the field
\* previewSpan refers to; at most one controls container is in the document.
C28_OnePreviewOneControls ==
  LET spans == {i \in 1..Len(doc) : doc[i].k = "span"}
      ctls  == {i \in 1..Len(doc) : doc[i].k = "ctl"}
  IN  /\ Cardinality(spans) <= 1
      /\ \A i \in spans : doc[i].id = previewSpan
      /\ Cardinality(ctls) <= 1

\* C29: a call of clear by the host (the step that takes the actions out of the
\* toolbar without starting a generation) removes from the document at most the
\* controls container the widget holds, unregisters the outside-click handler and
\* removes the prompt UI; every other node of the document, the preview spans with
\* their text, highlight and mousedown listener, the field previewSpan, the snapshot
\* (original text, selected text, range) and the processing flag are as before, and
\* a mousedown on any finished preview span still in the document puts a controls
\* container bound to that span into the document.
C29_ClearFrame ==
  [][(actionsContainer = "attached" /\ actionsContainer' = "null" /\ nGen' = nGen) =>
       LET pos == IF controlsContainer = 0 THEN 0 ELSE PosOf(doc, "ctl", controlsContainer)
       IN  /\ [doc |-> doc', rs |-> ranges'] =
                IF pos > 0 THEN DomRemove([doc |-> doc, rs |-> ranges], pos - 1)
                ELSE [doc |-> doc, rs |-> ranges]
           /\ controlsContainer' = IF pos > 0 THEN 0 ELSE controlsContainer
           /\ outsideClickHandler' = 0
           /\ docListeners' = docListeners \ {outsideClickHandler}
           /\ UNCHANGED <<spanText, spanHi, spanDown, previewSpan, originalText,
                          currentRange, currentSelectedText, isProcessing, gen,
                          timers, requests>>
           /\ inputEvents' = 0 /\ ~alertShown'
           /\ \A p \in Gens :
                (PosOf(doc, "span", p) > 0 /\ spanDown[p]) =>
                  /\ PosOf(doc', "span", p) > 0
                  /\ LET w == onMouseDown(W', p)
                     IN  /\ w.controlsContainer # 0
                         /\ PosOf(w.doc, "ctl", w.controlsContainer) > 0
                         /\ w.ctlSpan[w.controlsContainer] = p]_vars

\* C29: clear has removed the controls and the handler while a finished, highlighted
\* preview span waits in the document for its decision
C29_Witness ==
  /\ previewSpan # 0 /\ PosOf(doc, "span", previewSpan) > 0
  /\ spanHi[previewSpan] /\ spanDown[previewSpan]
  /\ controlsContainer = 0 /\ outsideClickHandler = 0 /\ actionsContainer = "null"
  /\ \A i \in 1..Len(doc) : doc[i].k # "ctl"
  /\ \A g \in Gens : gen[g].pc \notin {"delay", "streaming"}

\* C30: a surround call made while the processing flag is set, or for a selection
\* whose text is empty after trimming, changes nothing: the original text, the
\* selected text, the range field and every live range, the document with its
\* preview spans and controls, the processing flag and the invocations are as before.
C30_SurroundEarlyReturnFrame ==
  [][lastOp'[1] = "surround" =>
       \A pos \in 1..Len(doc) : \A sel \in Selections(doc[pos].t) :
         (/\ isProcessing \/ Trim(SubSeq(doc[pos].t, sel[1] + 1, sel[2])) = <<>>
          /\ Invoke(pos, sel[1], sel[2])) =>
           UNCHANGED <<originalText, currentSelectedText, currentRange, ranges, doc,
                       spanText, spanHi, isProcessing, previewSpan, controlsContainer,
                       outsideClickHandler, docListeners, snapshots, gen, requests>>]_vars

\* C30: surround has returned early because a generation was being processed, with
\* the snapshot of that generation still in the fields
C30_Witness ==
  /\ lastOp[1] = "surround" /\ isProcessing /\ currentRange # 0
  /\ \E g \in Gens : gen[g].pc = "streaming"

=============================================================================
